---- MODULE Spec2Model ----
(***************************************************************************)
(* Classification and colour mapping of the county indicator choropleth   *)
(* of the shipyard-competition dashboard (Home.py, build_map), and the     *)
(* break computation of the Split Map page (classify_data).                *)
(*                                                                         *)
(* Spec is the Home page and the Split Map page over one indicator column. *)
(* SpecPages is the three pages over tables of two columns read from a     *)
(* data source that changes, with the st.cache_data caches of the pages.   *)
(* SpecFunctions applies the yard colour assignment, the normaliser of     *)
(* "Shipyards in Radius" and the registry lookup to bounded inputs.        *)
(*                                                                         *)
(* Numbers.  County values and break points are floats in the program.    *)
(* Here a number x is the integer x * Unit, and Unit is divisible by every *)
(* denominator the computations introduce (percentile ranks in 1/100 and   *)
(* 1/k, k-step and (k-1)-step subdivisions), so all arithmetic is exact.   *)
(*                                                                         *)
(* Colours.  A colour is a point on a palette: [pal, at] with at/ColorUnit *)
(* the (possibly fractional) 0-based position on the palette; palette[i]   *)
(* is the point at = i * ColorUnit.  Linear interpolation between two      *)
(* palette stops is a fractional position.                                 *)
(***************************************************************************)
EXTENDS Integers, Sequences, FiniteSets, TLC

\* ---------------------------------------------------------------- bounds
MaxCounties == 6

\* county values that occur in the bounded tables (in whole units)
Values == {0, 1, 2, 4, 7, 9}

Unit == 50 * (5 * 6 * 7) * 60
ColorUnit == 3 * 4 * 5

\* ------------------------------------------------------- generic helpers
Range(s) == {s[i] : i \in DOMAIN s}

Last(s) == s[Len(s)]

SetMin(S) == CHOOSE x \in S : \A y \in S : x <= y

SetMax(S) == CHOOSE x \in S : \A y \in S : x >= y

Min2(a, b) == IF a <= b THEN a ELSE b

RECURSIVE SetToSortedSeq(_)
SetToSortedSeq(S) ==
    IF S = {} THEN <<>>
    ELSE LET m == SetMin(S) IN <<m>> \o SetToSortedSeq(S \ {m})

RECURSIVE sort_values(_)
sort_values(s) ==
    IF s = <<>> THEN <<>>
    ELSE LET m == SetMin(Range(s))
             i == CHOOSE j \in DOMAIN s : s[j] = m
         IN <<m>> \o sort_values(SubSeq(s, 1, i - 1) \o SubSeq(s, i + 1, Len(s)))

\* ------------------------------------------------------------ the table
\* one cell of the indicator column of the county table (a float column)
Num(v) == [k |-> "num", v |-> v]
NaN == [k |-> "nan", v |-> 0]
PosInf == [k |-> "inf", v |-> 0]
NegInf == [k |-> "-inf", v |-> 0]
NoneValue == [k |-> "none", v |-> 0]

Cells == {Num(v) : v \in Values} \cup {NaN, PosInf, NegInf}

CellRank(c) ==
    CASE c.k = "nan" -> -2
      [] c.k = "-inf" -> -1
      [] c.k = "num" -> c.v
      [] OTHER -> SetMax(Values) + 1

\* The county tables of the bounded model: every column of at most
\* MaxCounties cells, counties listed in non-decreasing cell order (the
\* classification never looks at the order of the rows).
RECURSIVE TablesOfLen(_)
TablesOfLen(n) ==
    IF n = 0 THEN {<<>>}
    ELSE UNION {{Append(t, c) : c \in {d \in Cells :
                        t = <<>> \/ CellRank(Last(t)) <= CellRank(d)}} :
                t \in TablesOfLen(n - 1)}

Tables == UNION {TablesOfLen(n) : n \in 0..MaxCounties}

\* ------------------------------------------------------------- registry
INDICATOR_OPTIONS ==
    {"None", "Unemployment Rate", "Median Worker Earnings", "Median Home Value",
     "Median Rent Paid", "Shipbuilders Employed", "Recruitment Radius Count"}

RegisteredNames ==
    {"Unemployment Rate", "Median Rent Paid", "Shipbuilders Employed",
     "Recruitment Radius Count", "Median Worker Earnings", "Median Home Value"}

indicator_settings(name) ==
    CASE name = "Unemployment Rate" ->
           [palette |-> <<"#f7fbff", "#deebf7", "#9ecae1", "#6baed6", "#3182bd", "#08519c">>,
            classes |-> 6, method |-> "jenks"]
      [] name = "Median Rent Paid" ->
           [palette |-> <<"#fff7fb", "#fbb4b9", "#f768a1", "#c51b8a", "#49006a">>,
            classes |-> 5, method |-> "jenks"]
      [] name = "Shipbuilders Employed" ->
           [palette |-> <<"#3288bd", "#66c2a5", "#abdda4", "#fee08b", "#f46d43", "#d53e4f">>,
            classes |-> 6, method |-> "jenks", label |-> "Shipyard Workers"]
      [] name = "Recruitment Radius Count" ->
           [palette |-> <<"#00204c", "#355e8d", "#7fa56e", "#d7c95f", "#f9f871", "#ffeb3b">>,
            classes |-> 6, method |-> "manual",
            bins |-> <<0, 0, 1, 3, 5, 6, 8>>, force_range |-> <<0, 8>>]
      [] name = "Median Worker Earnings" ->
           [palette |-> <<"#f7fcf0", "#c7e9c0", "#74c476", "#31a354", "#006d2c">>,
            classes |-> 6, method |-> "jenks"]
      [] name = "Median Home Value" ->
           [palette |-> <<"#fff5eb", "#fdbe85", "#fd8d3c", "#e6550d", "#a63603">>,
            classes |-> 5, method |-> "quantile"]

default_settings ==
    [palette |-> <<"#f7fbff", "#6baed6", "#08519c">>, classes |-> 7, method |-> "linear"]

\* a lookup whose default is the first entry of the registry
get_settings_first_entry(indicator_label) ==
    IF indicator_label \in RegisteredNames
    THEN indicator_settings(indicator_label)
    ELSE indicator_settings("Unemployment Rate")

\* indicator_settings.get(indicator_label, default)
get_settings(indicator_label) ==
    IF indicator_label \in RegisteredNames
    THEN indicator_settings(indicator_label)
    ELSE default_settings

\* ------------------------------------------------------------- colours
NoDataColor == [pal |-> <<"#cccccc">>, at |-> 0]

\* the colour of the i-th (0-based) entry of a palette
PaletteColor(pal, i) == [pal |-> pal, at |-> i * ColorUnit]

\* float(x) of a whole number of units
Float(v) == v * Unit

\* ------------------------------------------------------ value domain
\* cbp[indicator_col].replace([np.inf, -np.inf], np.nan).dropna()
IsFinite(c) == c.k = "num"

clean_values(column) ==
    LET kept == SelectSeq(column, IsFinite)
    IN [i \in 1..Len(kept) |-> Float(kept[i].v)]

\* len(vals.unique())
unique_count(vals) == Cardinality(Range(vals))

\* ---------------------------------------------------------- percentiles
\* The value at rank (n-1) * num / den of the sorted values, by linear
\* interpolation between the two neighbours (pandas Series.quantile and
\* the percentile behind mapclassify's quantile).
percentile(vals, num, den) ==
    LET y == sort_values(vals)
        pos == (Len(y) - 1) * num
        lo == (pos \div den) + 1
        rem == pos % den
    IN IF rem = 0 THEN y[lo]
       ELSE y[lo] + ((y[lo + 1] - y[lo]) * rem) \div den

\* np.linspace(vmin, vmax, n + 1)
\* linspace without its end point (endpoint=False)
linspace_without_endpoint(vmin, vmax, n) ==
    [i \in 1..(n + 1) |-> vmin + ((vmax - vmin) * (i - 1)) \div (n + 1)]

linspace(vmin, vmax, n) ==
    [i \in 1..(n + 1) |-> vmin + ((vmax - vmin) * (i - 1)) \div n]

\* quantile_bins with the ties kept (no np.unique)
quantile_bins_keeping_ties(vals, k) ==
    [j \in 1..k |-> percentile(vals, j, k)]

\* mapclassify.Quantiles(vals_clean, k).bins: the k percentiles
\* 100/k, 200/k, ..., 100, duplicates removed, ascending
quantile_bins(vals, k) ==
    SetToSortedSeq({percentile(vals, j, k) : j \in 1..k})

\* mapclassify.NaturalBreaks(vals_clean, k).bins for k smaller than the
\* number of distinct values: k-means in one dimension splits the sorted
\* distinct values into k non-empty runs and reports the maximum of each;
\* which split it finds depends on its random start, so every split is a
\* possible outcome.
natural_breaks_bins(vals, k) ==
    LET uv == SetToSortedSeq(Range(vals))
        d == Len(uv)
    IN {SetToSortedSeq({uv[i] : i \in cut} \cup {uv[d]}) :
           cut \in {c \in SUBSET (1..(d - 1)) : Cardinality(c) = k - 1}}

\* ----------------------------------------------------------- colormaps
\* branch: which arm of build_map's classification built the scale;
\* raw: the breaks the classifier gave before any evenly-spaced correction;
\* k: the number of classes asked of the classifier.
NoColormap ==
    [index |-> <<>>, colors |-> <<>>, vmin |-> 0, vmax |-> 0,
     branch |-> "none", raw |-> <<>>, respaced |-> FALSE, k |-> 0]

\* cm.StepColormap(colors=palette, index=index, vmin=vmin, vmax=vmax)
StepColormap(palette, index, vmin, vmax, branch, raw, respaced, k) ==
    [index |-> index,
     colors |-> [i \in 1..Len(palette) |-> PaletteColor(palette, i - 1)],
     vmin |-> vmin, vmax |-> vmax,
     branch |-> branch, raw |-> raw, respaced |-> respaced, k |-> k]

\* LinearColormap(colors=palette, vmin, vmax).index
linear_index(palette, vmin, vmax) ==
    [j \in 1..Len(palette) |->
        vmin + ((vmax - vmin) * (j - 1)) \div (Len(palette) - 1)]

\* LinearColormap.rgba_floats_tuple(x): interpolate between the two
\* palette stops around x
linear_color(palette, vmin, vmax, x) ==
    LET idx == linear_index(palette, vmin, vmax)
        n == Len(palette)
        i == Cardinality({j \in 1..n : idx[j] < x})
    IN IF x <= idx[1] THEN PaletteColor(palette, 0)
       ELSE IF x >= idx[n] THEN PaletteColor(palette, n - 1)
       ELSE IF idx[i] < idx[i + 1]
            THEN [pal |-> palette,
                  at |-> (i - 1) * ColorUnit
                         + ((x - idx[i]) * ColorUnit) \div (idx[i + 1] - idx[i])]
            ELSE PaletteColor(palette, i)

\* LinearColormap(colors=palette, vmin, vmax).to_step(n)
to_step(palette, vmin, vmax, n, branch) ==
    LET index == [i \in 1..(n + 1) |-> vmin + ((vmax - vmin) * (i - 1)) \div n]
    IN [index |-> index,
        colors |-> [i \in 1..n |->
            linear_color(palette, vmin, vmax,
                (index[i] * (n - i) + index[i + 1] * (i - 1)) \div (n - 1))],
        vmin |-> index[1], vmax |-> index[n + 1],
        branch |-> branch, raw |-> index, respaced |-> FALSE, k |-> n]

\* ------------------------------------------------------ classification
\* the "try" block of build_map: the colour scales the selected
\* indicator's settings can produce from the cleaned values
\* manual_colormap with the repeated bin edge dropped
manual_colormap_unique_bins(settings) ==
    LET bins == SetToSortedSeq({Float(settings.bins[i]) : i \in 1..Len(settings.bins)})
    IN [index |-> bins,
        colors |-> [i \in 1..Len(settings.palette) |->
                       [pal |-> settings.palette, at |-> (i - 1) * ColorUnit]],
        vmin |-> bins[1], vmax |-> bins[Len(bins)],
        branch |-> "manual", raw |-> bins, respaced |-> FALSE, k |-> Len(bins) - 1]

manual_colormap(settings) ==
    LET bins == [i \in 1..Len(settings.bins) |-> Float(settings.bins[i])]
        range == IF "force_range" \in DOMAIN settings
                 THEN <<Float(settings.force_range[1]), Float(settings.force_range[2])>>
                 ELSE <<bins[1], Last(bins)>>
    IN StepColormap(settings.palette, bins, range[1], range[2],
                    "manual", bins, FALSE, Len(bins) - 1)

\* with_minimum starting from the observed maximum instead
with_maximum(vals_clean, bins) ==
    <<CHOOSE x \in Range(vals_clean) : \A y \in Range(vals_clean) : x >= y>> \o bins

\* [float(vals_clean.min())] + [float(b) for b in bins]
with_minimum(vals_clean, bins) == <<SetMin(Range(vals_clean))>> \o bins

quantile_colormap(settings, vals_clean) ==
    LET palette == settings.palette
        quant_index == with_minimum(vals_clean, quantile_bins(vals_clean, settings.classes))
        vmin == SetMin(Range(vals_clean))
        vmax == SetMax(Range(vals_clean))
        mismatch == Len(quant_index) # Len(palette) + 1
    IN StepColormap(palette,
                    IF mismatch THEN linspace(vmin, vmax, Len(palette)) ELSE quant_index,
                    vmin, vmax, "quantile", quant_index, mismatch, settings.classes)

jenks_colormaps(settings, vals_clean) ==
    LET palette == settings.palette
        k == Min2(settings.classes, unique_count(vals_clean) - 1)
        vmin == SetMin(Range(vals_clean))
        vmax == SetMax(Range(vals_clean))
    IN {LET jenks_index == with_minimum(vals_clean, bins)
            mismatch == Len(jenks_index) # Len(palette) + 1
        IN StepColormap(palette,
                        IF mismatch THEN linspace(vmin, vmax, Len(palette)) ELSE jenks_index,
                        vmin, vmax, "jenks", jenks_index, mismatch, k) :
        bins \in natural_breaks_bins(vals_clean, k)}

linear_colormap(settings, vals_clean) ==
    to_step(settings.palette,
            percentile(vals_clean, 2, 100), percentile(vals_clean, 98, 100),
            settings.classes, "linear")

\* the outcome of the try block when the classifier call raises (the
\* mapclassify classifiers are not part of the program: a missing or
\* failing backend surfaces as an exception of the call)
ClassifierError ==
    [index |-> <<>>, colors |-> <<>>, vmin |-> 0, vmax |-> 0,
     branch |-> "raised", raw |-> <<>>, respaced |-> FALSE, k |-> 0]

classify(settings, vals_clean) ==
    IF settings.method = "manual" /\ "bins" \in DOMAIN settings
    THEN {manual_colormap(settings)}
    ELSE IF settings.method = "quantile"
    THEN {quantile_colormap(settings, vals_clean), ClassifierError}
    ELSE IF settings.method = "jenks" /\ unique_count(vals_clean) >= 3
    THEN jenks_colormaps(settings, vals_clean) \cup {ClassifierError}
    ELSE {linear_colormap(settings, vals_clean)}

\* the except arm: linear scale between the 2nd and 98th percentile of
\* vals, stepped into n_classes
fallback_colormap(settings, vals) ==
    to_step(settings.palette,
            percentile(vals, 2, 100), percentile(vals, 98, 100),
            settings.classes, "except")

\* try / except of build_map: the scale and the warnings of one outcome
colormap_or_fallback(settings, vals, outcome) ==
    IF outcome.branch = "raised"
    THEN [colormap |-> fallback_colormap(settings, vals),
          warnings |-> {"Color scale fallback"}]
    ELSE [colormap |-> outcome, warnings |-> {}]

\* ------------------------------------------------------------ style_fn
\* cbp.__geo_interface__: a missing (NaN) cell becomes null in the feature
\* properties; every other float is passed through
geo_interface(c) == IF c.k = "nan" THEN NoneValue ELSE c

\* float comparisons x <= u, x >= u for a float x that may be infinite or NaN
FloatLeq(x, u) ==
    CASE x.k = "num" -> Float(x.v) <= u
      [] x.k = "-inf" -> TRUE
      [] OTHER -> FALSE

FloatGeq(x, u) ==
    CASE x.k = "num" -> Float(x.v) >= u
      [] x.k = "inf" -> TRUE
      [] OTHER -> FALSE

\* step_color with right-closed intervals (a break belongs to the interval
\* it ends)
step_color_right_closed(cmap, x) ==
    LET n == Len(cmap.index)
        i == Cardinality({j \in 1..n : x.k = "inf" \/ (x.k = "num" /\ x.v * Unit > cmap.index[j])})
    IN IF FloatLeq(x, cmap.index[1]) THEN cmap.colors[1]
       ELSE IF FloatGeq(x, cmap.index[n]) THEN cmap.colors[Len(cmap.colors)]
       ELSE cmap.colors[i]

\* StepColormap.__call__(x); raises when the interval has no colour
step_color(cmap, x) ==
    LET n == Len(cmap.index)
        i == Cardinality({j \in 1..n : FloatGeq(x, cmap.index[j])})
    IN IF FloatLeq(x, cmap.index[1]) THEN cmap.colors[1]
       ELSE IF FloatGeq(x, cmap.index[n]) THEN Last(cmap.colors)
       ELSE IF i = 0 THEN Last(cmap.colors)
       ELSE IF i > Len(cmap.colors) THEN NoDataColor
       ELSE cmap.colors[i]

style_fn(value, cmap) ==
    IF value.k = "none" \/ value.k = "nan" THEN NoDataColor
    ELSE IF value.k = "str" THEN NoDataColor
    ELSE step_color(cmap, value)

\* ----------------------------------------------------------- build_map
AllLayers == {"cbp", "buffers", "shipyards", "measure"}

\* every outcome of build_map(indicator_label) on the county table
build_map(table, label) ==
    IF label = "None"
    THEN {[colormap |-> NoColormap, fills |-> <<>>, warnings |-> {},
           layers |-> AllLayers \cup {"legend"}]}
    ELSE LET vals == clean_values(table)
         IN IF unique_count(vals) = 0
            THEN {[colormap |-> NoColormap, fills |-> <<>>,
                   warnings |-> {"No valid numeric data"}, layers |-> {}]}
            ELSE {LET made == colormap_or_fallback(get_settings(label), vals, outcome)
                  IN [colormap |-> made.colormap,
                      fills |-> [i \in 1..Len(table) |->
                                    style_fn(geo_interface(table[i]), made.colormap)],
                      warnings |-> made.warnings,
                      layers |-> AllLayers \cup {"layer_control", "colormap"}] :
                  outcome \in classify(get_settings(label), vals)}

\* ------------------------------------------- Split Map: classify_data
\* 1e-6, as one step of the fixed-point numbers (1 / Unit)
Eps == 1

ClassifyK == 5

\* _data[column].fillna(0)
fillna_zero(column) ==
    [i \in DOMAIN column |-> IF column[i].k = "nan" THEN Num(0) ELSE column[i]]

RECURSIVE SumSeq(_)
SumSeq(s) == IF s = <<>> THEN 0 ELSE Head(s) + SumSeq(Tail(s))

\* a common multiple of every class size, to compare variances exactly
SizeLcm == 8 * 3 * 5 * 7

\* the within-class sum of squared deviations of the sorted values y cut
\* after the positions of cut, times SizeLcm
within_class_cost(y, cut) ==
    LET b == SetToSortedSeq(cut \cup {Len(y)})
        class(j) == SubSeq(y, IF j = 1 THEN 1 ELSE b[j - 1] + 1, b[j])
        ssd(c) == SizeLcm * SumSeq([i \in DOMAIN c |-> c[i] * c[i]])
                  - (SizeLcm \div Len(c)) * SumSeq(c) * SumSeq(c)
    IN SumSeq([j \in DOMAIN b |-> ssd(class(j))])

\* mapclassify.FisherJenks(y, k).bins: the upper bounds of the k classes
\* of a split of the sorted values with the least within-class variance
\* (any of them when several are optimal)
fisher_jenks_bins(values, k) ==
    LET y == sort_values(values)
        cuts == {c \in SUBSET (1..(Len(y) - 1)) : Cardinality(c) = k - 1}
        best == {c \in cuts : \A o \in cuts :
                    within_class_cost(y, c) <= within_class_cost(y, o)}
    IN {LET b == SetToSortedSeq(c \cup {Len(y)})
        IN [j \in 1..k |-> Float(y[b[j]])] : c \in best}

NoBins == [raised |-> FALSE, bins |-> <<>>]

\* the body of classify_data(_data, column): every outcome; FisherJenks
\* raises ValueError when the column has fewer than k distinct values
classify_data(column) ==
    LET filled == fillna_zero(column)
        values == [i \in DOMAIN filled |-> filled[i].v]
    IN IF Cardinality(Range(values)) < ClassifyK
       THEN {[raised |-> TRUE, bins |-> <<>>]}
       ELSE {[raised |-> FALSE,
              bins |-> [j \in 1..ClassifyK |->
                          IF j = ClassifyK THEN Float(SetMax(Range(values))) + Eps
                          ELSE IF j = 1 THEN Float(SetMin(Range(values))) - Eps
                          ELSE bins[j]]] :
             bins \in fisher_jenks_bins(values, ClassifyK)}

\* ------------------------------------------- datasets with two columns
\* two of cbp_options, the columns the pages let the user select
PageColumns == {"Unemployement Rate", "Median Home Value"}

\* what a column of a snapshot can hold: all finite, one missing value, and
\* too few distinct values for five classes
ColumnChoices ==
    {<<Num(1), Num(2), Num(4), Num(7), Num(9)>>,
     <<NaN, Num(1), Num(2), Num(4), Num(7)>>,
     <<Num(1), NaN, Num(1), Num(2), NaN>>}

\* the county table as read from the data source at some moment: four
\* tables whose two columns differ
Snapshots ==
    {d \in [PageColumns -> ColumnChoices] :
        /\ d["Unemployement Rate"] # d["Median Home Value"]
        /\ d["Median Home Value"][1] # NaN}

CachedPages == {"Interactive Map", "Split Map"}

\* INDICATOR_OPTIONS[indicator_label] of the Home page
indicator_column(label) ==
    IF label = "Unemployment Rate" THEN "Unemployement Rate" ELSE label

\* cbp[selected_col] = cbp[selected_col].fillna(0) on the page's own table
fill_selected(data, column) == [data EXCEPT ![column] = fillna_zero(@)]

\* the body of prepare_classified_data(_data, column) of the Interactive
\* Map page: every outcome
prepare_classified_data(data, column) ==
    LET values == [i \in DOMAIN data[column] |-> data[column][i].v]
    IN IF Cardinality(Range(values)) < ClassifyK
       THEN {[raised |-> TRUE, column |-> column, data |-> data, bins |-> <<>>]}
       ELSE {[raised |-> FALSE, column |-> column, data |-> data, bins |-> bins] :
             bins \in fisher_jenks_bins(values, ClassifyK)}

\* the body of classify_data(_data, column) of the Split Map page on a
\* table: the copy with the column filled, and the breaks
classify_table(data, column) ==
    {[raised |-> r.raised, column |-> column,
      data |-> fill_selected(data, column), bins |-> r.bins] :
     r \in classify_data(data[column])}

\* st.cache_data: the entries stored under the hashed arguments of a call;
\* the parameter _data is not hashed, the key is the column alone
cached_result_any_column(cache, column) == cache

cached_result(cache, column) == {e \in cache : e.column = column}

\* a cached function called with (_data, column): every result the call
\* can return, with whether it was served from the cache
cached_call(cache, outcomes, column) ==
    IF cached_result(cache, column) # {}
    THEN {[hit |-> TRUE, result |-> e] : e \in cached_result(cache, column)}
    ELSE {[hit |-> FALSE, result |-> o] : o \in outcomes}

\* the cache after the call: a raised exception stores nothing
cache_after(cache, call) ==
    IF call.hit \/ call.result.raised THEN cache ELSE cache \cup {call.result}

NoRun == [page |-> "none"]

\* the indicators selected on the Home page
HomeLabels == {"Unemployment Rate", "Median Home Value"}

\* ------------------------------------------------- shipyards and yards
\* the colours of the shipyards, the same list on both pages
palette ==
    <<"#E58606", "#5D69B1", "#52BCA3", "#99C945", "#CC61B0", "#24796C",
      "#DAA51B", "#2F8AC4", "#764E9F", "#ED645A", "#CC3A8E", "#A5AA99">>

page_palette ==
    <<"#E58606", "#5D69B1", "#52BCA3", "#99C945", "#CC61B0", "#24796C",
      "#DAA51B", "#2F8AC4", "#764E9F", "#ED645A", "#CC3A8E", "#A5AA99">>

MaxYards == 13

\* the yard_unique_id column of the shipyards table: the yards 1..n in
\* ascending or descending order, or with one yard on a second row
YardColumns ==
    UNION {{[i \in 1..n |-> i], [i \in 1..n |-> n + 1 - i]}
           \cup {Append([i \in 1..n |-> i], j) : j \in 1..n} :
           n \in 0..MaxYards}

\* the distinct values in ascending order (np.unique)
unique_sorted(column) == SetToSortedSeq(Range(column))

\* Series.unique(): the distinct values in order of first appearance
RECURSIVE unique(_)
unique(column) ==
    IF column = <<>> THEN <<>>
    ELSE LET before == unique(SubSeq(column, 1, Len(column) - 1))
         IN IF Last(column) \in Range(before) THEN before
            ELSE Append(before, Last(column))

\* {yard_id: colors[i % len(colors)] for i, yard_id in enumerate(unique_yards)}
color_map(colors, column) ==
    LET unique_yards == unique(column)
    IN [yard_id \in Range(unique_yards) |->
           LET i == (CHOOSE n \in 1..Len(unique_yards) : unique_yards[n] = yard_id) - 1
           IN colors[(i % Len(colors)) + 1]]

\* a string is the sequence of its characters; "LLC" stands for the three
\* letters, which no operation here takes apart
Chars == {"A", "B", " ", ",", ";", "LLC"}

MaxFieldLen == 4

FieldStrings == UNION {[1..n -> Chars] : n \in 0..MaxFieldLen}

\* what a cell of "Shipyards in Radius" can hold: None, NaN, a list (or
\* tuple or set) of names, or a string
FieldValues ==
    {[k |-> "none"], [k |-> "nan"]}
    \cup {[k |-> "list", items |-> v] :
            v \in UNION {[1..n -> {<<"A">>, <<"B">>}] : n \in 0..2}}
    \cup {[k |-> "str", chars |-> v] : v \in FieldStrings}

\* str.split on any of the separators seps
RECURSIVE split(_, _)
split(string, seps) ==
    IF string = <<>> THEN << <<>> >>
    ELSE LET rest == split(Tail(string), seps)
         IN IF Head(string) \in seps
            THEN << <<>> >> \o rest
            ELSE << <<Head(string)>> \o Head(rest) >> \o Tail(rest)

\* str.strip()
RECURSIVE strip(_)
strip(string) ==
    IF string = <<>> THEN <<>>
    ELSE IF Head(string) = " " THEN strip(Tail(string))
    ELSE IF Last(string) = " " THEN strip(SubSeq(string, 1, Len(string) - 1))
    ELSE string

\* parse_shipyards_in_radius(x)
parse_shipyards_in_radius(x) ==
    IF x.k \in {"none", "nan"} THEN {}
    ELSE IF x.k = "list" THEN Range(x.items)
    ELSE {strip(s) : s \in Range(split(x.chars, {","}))} \ {<<>>}

\* re.split(r", (?!LLC|Inc\b|inc\b|llc\b)", string): the string is cut at
\* every ", " that is not followed by LLC
RECURSIVE re_split(_)
re_split(string) ==
    IF string = <<>> THEN << <<>> >>
    ELSE IF /\ Len(string) >= 2
            /\ string[1] = "," /\ string[2] = " "
            /\ ~(Len(string) >= 3 /\ string[3] = "LLC")
    THEN << <<>> >> \o re_split(SubSeq(string, 3, Len(string)))
    ELSE LET rest == re_split(Tail(string))
         IN << <<Head(string)>> \o Head(rest) >> \o Tail(rest)

\* format_shipyards_list(val) of the Interactive Map page: the items of
\* the list it renders, none for "None nearby"
format_shipyards_list(val) ==
    IF val.k \in {"none", "nan"} THEN {}
    ELSE IF val.chars = <<>> THEN {}
    ELSE {strip(y) : y \in Range(re_split(strip(val.chars)))} \ {<<>>}

\* the "Shipyards in Radius" cells of the county tables that are filtered
CountyFields ==
    {[k |-> "none"],
     [k |-> "list", items |-> << <<"A">> >>],
     [k |-> "list", items |-> << <<"B">>, <<"A">> >>],
     [k |-> "str", chars |-> <<"B">>],
     [k |-> "str", chars |-> <<"A", ",", " ", "B", ",", " ", "LLC">>],
     [k |-> "str", chars |-> <<"A", ";", "B">>]}

MaxFilterCounties == 3

CountyTables == UNION {[1..n -> CountyFields] : n \in 0..MaxFilterCounties}

\* what st.multiselect can return over the yards A, B and "A, LLC"
SelectedYards == {<<>>, << <<"A">> >>, << <<"B">> >>,
                  << <<"A">>, <<"B">> >>, << <<"B">>, <<"A">> >>,
                  << <<"A", ",", " ", "LLC">>, <<"B">> >>}

\* cbp_local: the copy of the county table with the column __yards_set
cbp_local(table) ==
    [i \in DOMAIN table |->
        [county |-> i, field |-> table[i],
         yards_set |-> parse_shipyards_in_radius(table[i])]]

\* a mask that asks for every selected yard
mask_every_yard(s, selected_yards) ==
    \A n \in DOMAIN selected_yards : selected_yards[n] \in s

\* any(y in s for y in selected_yards)
mask(s, selected_yards) ==
    \E n \in DOMAIN selected_yards : selected_yards[n] \in s

\* cbp_view: the rows of cbp_local under the mask, or all of them
cbp_view(table, selected_yards) ==
    LET kept(row) == mask(row.yards_set, selected_yards)
    IN IF selected_yards # <<>>
       THEN SelectSeq(cbp_local(table), kept)
       ELSE cbp_local(table)

\* the order of strings: by character, a prefix first
CharRank(c) ==
    CASE c = " " -> 0 [] c = "," -> 1 [] c = ";" -> 2
      [] c = "A" -> 3 [] c = "B" -> 4 [] c = "LLC" -> 5

RECURSIVE string_less(_, _)
string_less(a, b) ==
    IF b = <<>> THEN FALSE
    ELSE IF a = <<>> THEN TRUE
    ELSE IF Head(a) # Head(b) THEN CharRank(Head(a)) < CharRank(Head(b))
    ELSE string_less(Tail(a), Tail(b))

\* sorted(names)
RECURSIVE sorted(_)
sorted(names) ==
    IF names = {} THEN <<>>
    ELSE LET first == CHOOSE y \in names :
                         \A z \in names : z = y \/ string_less(y, z)
         IN <<first>> \o sorted(names \ {first})

\* the yards of the view, the selected ones among them
competitors_with_selected(view, selected_yards) ==
    sorted(UNION {view[i].yards_set : i \in DOMAIN view})

\* competitors = sorted(y for y in others if y not in set(selected_yards))
competitors(view, selected_yards) ==
    LET others == UNION {view[i].yards_set : i \in DOMAIN view}
    IN sorted({y \in others : y \notin Range(selected_yards)})

\* the names the registry is asked for: its keys and three others
LookupNames == RegisteredNames \cup {"None", "Population", ""}

\* ------------------------------------------------------- state machine
VARIABLES page, cbp, indicator_label, colormap, fills, warnings, layers,
          split_bins, classify_cache,
          data_cache, result_cache, run,
          input, output, page_output

homeVars == <<page, cbp, indicator_label, colormap, fills, warnings, layers,
              split_bins, classify_cache>>

pagesVars == <<data_cache, result_cache, run>>

fnVars == <<input, output, page_output>>

vars == <<homeVars, pagesVars, fnVars>>

\* no page with cached data has run
NoPages ==
    /\ data_cache = [p \in CachedPages |-> {}]
    /\ result_cache = [p \in CachedPages |-> {}]
    /\ run = NoRun

\* Rendered with a hidden state: a scale built by an earlier run is used
\* again for the next indicator
Rendered_reusing_scale(table, label) ==
    \E r \in build_map(table, label) :
        /\ colormap' = IF colormap.branch # "none" /\ r.colormap.branch # "none"
                        THEN colormap ELSE r.colormap
        /\ fills' = [i \in DOMAIN r.fills |->
                         style_fn(geo_interface(table[i]), colormap')]
        /\ warnings' = r.warnings
        /\ layers' = r.layers

Rendered(table, label) ==
    \E r \in build_map(table, label) :
        /\ colormap' = r.colormap
        /\ fills' = r.fills
        /\ warnings' = r.warnings
        /\ layers' = r.layers

\* no function has been applied; output holds at most one value
NoCalls ==
    /\ input = [fn |-> "none"]
    /\ output = {}
    /\ page_output = {}

\* first run of Home.py: data loaded, indicator pills at "None"
Init ==
    /\ page = "Home"
    /\ cbp \in Tables
    /\ indicator_label = "None"
    /\ colormap = NoColormap
    /\ fills = <<>>
    /\ warnings = {}
    /\ layers = AllLayers \cup {"legend"}
    /\ split_bins = NoBins
    /\ classify_cache = {}
    /\ NoPages
    /\ NoCalls

\* the user picks an indicator: Home.py reruns and rebuilds the map
SelectIndicator(label) ==
    /\ page = "Home"
    /\ indicator_label' = label
    /\ Rendered(cbp, label)
    /\ UNCHANGED <<page, cbp, split_bins, classify_cache>>
    /\ UNCHANGED <<pagesVars, fnVars>>

\* FisherJenks is only defined on finite input
AllFinite(column) == \A i \in DOMAIN column : column[i].k \in {"num", "nan"}

\* the Split Map page runs: classify_data is served from st.cache_data when
\* it has a stored result, else computed (and stored unless it raised);
\* the Home page's map is gone
OpenSplitMap ==
    /\ AllFinite(cbp)
    /\ page' = "Split Map"
    /\ IF classify_cache # {}
       THEN /\ split_bins' \in classify_cache
            /\ UNCHANGED classify_cache
       ELSE /\ split_bins' \in classify_data(cbp)
            /\ classify_cache' = IF split_bins'.raised THEN {} ELSE {split_bins'}
    /\ indicator_label' = "None"
    /\ colormap' = NoColormap
    /\ fills' = <<>>
    /\ warnings' = {}
    /\ layers' = {}
    /\ UNCHANGED cbp
    /\ UNCHANGED <<pagesVars, fnVars>>

\* back to the Home page: Home.py runs with the pills at their default
OpenHome ==
    /\ page = "Split Map"
    /\ page' = "Home"
    /\ indicator_label' = "None"
    /\ Rendered(cbp, "None")
    /\ split_bins' = NoBins
    /\ UNCHANGED <<cbp, classify_cache>>
    /\ UNCHANGED <<pagesVars, fnVars>>

Next ==
    \/ \E label \in INDICATOR_OPTIONS : SelectIndicator(label)
    \/ OpenSplitMap
    \/ OpenHome

Spec == Init /\ [][Next]_vars

\* ------------------------------- the pages over a changing data source
\* a run of a page with cached load_data(): the table of the cache, or on a
\* miss the snapshot the data source holds at that moment
Loaded(p, d) ==
    /\ d \in (IF data_cache[p] = {} THEN Snapshots ELSE data_cache[p])
    /\ data_cache' = [data_cache EXCEPT ![p] = {d}]

InitPages ==
    /\ page = "Home"
    /\ cbp = <<>>
    /\ indicator_label = "None"
    /\ colormap = NoColormap
    /\ fills = <<>>
    /\ warnings = {}
    /\ layers = AllLayers \cup {"legend"}
    /\ split_bins = NoBins
    /\ classify_cache = {}
    /\ NoPages
    /\ NoCalls

\* Home.py runs with an indicator selected: the data is read again and the
\* map is built from it, nothing is cached
RunHome(label) ==
    \E d \in Snapshots :
            /\ \E r \in build_map(d[indicator_column(label)], label) :
              run' = [page |-> "Home", columns |-> <<indicator_column(label)>>,
                      loaded |-> d, view |-> d,
                      calls |-> <<[hit |-> FALSE,
                                   result |-> [raised |-> FALSE,
                                               column |-> indicator_column(label),
                                               data |-> d,
                                               bins |-> r.colormap.index]]>>]
        /\ UNCHANGED <<data_cache, result_cache>>
        /\ UNCHANGED <<homeVars, fnVars>>

\* the Interactive Map page runs with selected_col = column
RunInteractiveMap(column) ==
    \E d \in Snapshots :
        /\ Loaded("Interactive Map", d)
        /\ LET table == fill_selected(d, column)
           IN \E call \in cached_call(result_cache["Interactive Map"],
                                      prepare_classified_data(table, column), column) :
                 /\ result_cache' = [result_cache EXCEPT
                                        !["Interactive Map"] = cache_after(@, call)]
                 /\ run' = [page |-> "Interactive Map", columns |-> <<column>>,
                            loaded |-> d, view |-> table, calls |-> <<call>>]
        /\ UNCHANGED <<homeVars, fnVars>>

\* the Split Map page runs with left_col and right_col; an exception of the
\* left classification ends the run
RunSplitMap(left_col, right_col) ==
    \E d \in Snapshots :
        /\ Loaded("Split Map", d)
        /\ \E left \in cached_call(result_cache["Split Map"],
                                   classify_table(d, left_col), left_col) :
              LET after_left == cache_after(result_cache["Split Map"], left)
              IN IF left.result.raised
                 THEN /\ result_cache' = [result_cache EXCEPT !["Split Map"] = after_left]
                      /\ run' = [page |-> "Split Map", columns |-> <<left_col>>,
                                 loaded |-> d, view |-> d, calls |-> <<left>>]
                 ELSE \E right \in cached_call(after_left,
                                               classify_table(d, right_col), right_col) :
                         /\ result_cache' = [result_cache EXCEPT
                                                !["Split Map"] = cache_after(after_left, right)]
                         /\ run' = [page |-> "Split Map",
                                    columns |-> <<left_col, right_col>>,
                                    loaded |-> d, view |-> d,
                                    calls |-> <<left, right>>]
        /\ UNCHANGED <<homeVars, fnVars>>

\* "Clear cache" of the app menu, or a restart of the process: every
\* st.cache_data entry is dropped, those of load_data included
ClearCache ==
    /\ \E p \in CachedPages : data_cache[p] # {}
    /\ data_cache' = [p \in CachedPages |-> {}]
    /\ result_cache' = [p \in CachedPages |-> {}]
    /\ UNCHANGED run
    /\ UNCHANGED <<homeVars, fnVars>>

NextPages ==
    \/ \E label \in HomeLabels : RunHome(label)
    \/ \E column \in PageColumns : RunInteractiveMap(column)
    \/ \E left_col, right_col \in PageColumns : RunSplitMap(left_col, right_col)
    \/ ClearCache

SpecPages == InitPages /\ [][NextPages]_vars

\* ------------------------------------------- the functions on their own
InitFunctions ==
    /\ page = "Home"
    /\ cbp = <<>>
    /\ indicator_label = "None"
    /\ colormap = NoColormap
    /\ fills = <<>>
    /\ warnings = {}
    /\ layers = AllLayers \cup {"legend"}
    /\ split_bins = NoBins
    /\ classify_cache = {}
    /\ NoPages
    /\ input \in {[fn |-> "parse_shipyards_in_radius", x |-> x] : x \in FieldValues}
                \cup {[fn |-> "color_map", column |-> column] : column \in YardColumns}
                \cup {[fn |-> "cbp_view", table |-> table, selected_yards |-> selected_yards] :
                        table \in CountyTables, selected_yards \in SelectedYards}
                \cup {[fn |-> "get_settings", name |-> name] : name \in LookupNames}
    /\ output = {}
    /\ page_output = {}

\* Home.py normalises one cell of "Shipyards in Radius"
ParseField ==
    /\ input.fn = "parse_shipyards_in_radius"
    /\ output = {}
    /\ output' = {parse_shipyards_in_radius(input.x)}
    /\ UNCHANGED <<input, page_output, homeVars, pagesVars>>

\* the Interactive Map page formats the same cell for its tooltip
FormatField ==
    /\ input.fn = "parse_shipyards_in_radius"
    /\ input.x.k # "list"
    /\ page_output = {}
    /\ page_output' = {format_shipyards_list(input.x)}
    /\ UNCHANGED <<input, output, homeVars, pagesVars>>

\* Home.py filters the counties by the selected yards and, when yards are
\* selected, lists the competitors; the county table itself is left as it is
FilterCounties ==
    /\ input.fn = "cbp_view"
    /\ output = {}
    /\ LET view == cbp_view(input.table, input.selected_yards)
       IN output' = {[cbp |-> input.table,
                      cbp_view |-> view,
                      competitors |-> IF input.selected_yards # <<>>
                                      THEN competitors(view, input.selected_yards)
                                      ELSE <<>>]}
    /\ UNCHANGED <<input, page_output, homeVars, pagesVars>>

\* Home.py assigns the yards their colours
HomeColorMap ==
    /\ input.fn = "color_map"
    /\ output' = {color_map(palette, input.column)}
    /\ UNCHANGED <<input, page_output, homeVars, pagesVars>>

\* the Interactive Map page assigns the yards their colours
PageColorMap ==
    /\ input.fn = "color_map"
    /\ page_output' = {color_map(page_palette, input.column)}
    /\ UNCHANGED <<input, output, homeVars, pagesVars>>

\* build_map looks the indicator up in the registry
LookupSettings ==
    /\ input.fn = "get_settings"
    /\ output = {}
    /\ output' = {get_settings(input.name)}
    /\ UNCHANGED <<input, page_output, homeVars, pagesVars>>

NextFunctions ==
    \/ ParseField
    \/ FormatField
    \/ FilterCounties
    \/ HomeColorMap
    \/ PageColorMap
    \/ LookupSettings

SpecFunctions == InitFunctions /\ [][NextFunctions]_vars

\* ---------------------------------------------------------- properties
Selected == indicator_label # "None"

Built == colormap.branch # "none"

settings == get_settings(indicator_label)

vals_clean == clean_values(cbp)

distinct_count == unique_count(vals_clean)

Counties == DOMAIN cbp

HasValue(v) == \E i \in Counties : cbp[i] = Num(v)

NonDecreasing(s) == \A i \in 1..(Len(s) - 1) : s[i] <= s[i + 1]

StrictlyIncreasing(s) == \A i \in 1..(Len(s) - 1) : s[i] < s[i + 1]

EvenlySpaced(s, lo, hi) ==
    \A i \in 1..Len(s) : (s[i] - lo) * (Len(s) - 1) = (hi - lo) * (i - 1)

\* C1: for the indicator registered with method manual (Recruitment Radius
\* Count) a colour scale is built from any column with a finite value, and
\* its breaks are exactly [0,0,1,3,5,6,8] whatever the column holds.
C1_ManualBreaksAreBins ==
    (Selected /\ settings.method = "manual" /\ distinct_count > 0) =>
        /\ Built
        /\ colormap.index = <<0, 0, Unit, 3 * Unit, 5 * Unit, 6 * Unit, 8 * Unit>>

C1_Witness ==
    /\ indicator_label = "Recruitment Radius Count"
    /\ Built
    /\ HasValue(9) /\ HasValue(7) /\ ~HasValue(0)

\* C2: an empty or all-missing column still yields a colour scale, over
\* the fallback range [0.0, 1.0].
C2_EmptyColumnFallbackRange ==
    (Selected /\ distinct_count = 0) =>
        /\ Built
        /\ colormap.index[1] = 0
        /\ colormap.index[Len(colormap.index)] = Unit

\* C3 (as claimed): a value v is given the colour i of the palette the
\* scale is drawn with, for the half-open interval [breaks[i], breaks[i+1])
\* that contains v.
C3_HalfOpenRuleAsClaimed ==
    Built =>
        \A c \in Counties : \A j \in 1..(Len(colormap.index) - 1) :
            (/\ cbp[c].k = "num"
             /\ colormap.index[j] <= Float(cbp[c].v)
             /\ Float(cbp[c].v) < colormap.index[j + 1])
            => fills[c] = colormap.colors[j]

\* C3 (amended): a value strictly between the first and the last break
\* gets the scale's colour i of the half-open interval [breaks[i],
\* breaks[i+1]) containing it (an interior break starts its interval); a
\* value equal to the first break gets colour 0 even when that break is
\* repeated; colour i is palette[i] on the manual, quantile and
\* natural-breaks scales (the linear scale has its own interpolated
\* colours); with the manual bins the value 4 is palette[3].
C3_HalfOpenScaleRule ==
    Built =>
        /\ \A c \in Counties : \A j \in 1..(Len(colormap.index) - 1) :
              (/\ cbp[c].k = "num"
               /\ colormap.index[1] < Float(cbp[c].v)
               /\ colormap.index[j] <= Float(cbp[c].v)
               /\ Float(cbp[c].v) < colormap.index[j + 1])
              => fills[c] = colormap.colors[j]
        /\ \A c \in Counties :
              (cbp[c].k = "num" /\ Float(cbp[c].v) = colormap.index[1])
              => fills[c] = colormap.colors[1]
        /\ colormap.branch \in {"manual", "quantile", "jenks"}
              => \A j \in DOMAIN colormap.colors :
                    colormap.colors[j] = PaletteColor(settings.palette, j - 1)
        /\ settings.method = "manual"
              => \A c \in Counties :
                    cbp[c] = Num(4) => fills[c] = PaletteColor(settings.palette, 3)

C3_Witness ==
    /\ indicator_label = "Recruitment Radius Count"
    /\ Built
    /\ \E c \in Counties : cbp[c] = Num(4) /\ fills[c] = PaletteColor(settings.palette, 3)
    /\ \E c \in Counties : cbp[c] = Num(1) /\ fills[c] = PaletteColor(settings.palette, 2)
    /\ \E c \in Counties : cbp[c] = Num(0) /\ fills[c] = PaletteColor(settings.palette, 0)

\* C4: a county whose value is None, NaN, +infinity or -infinity is filled
\* with the no-data colour #cccccc, which is no colour of any registered
\* palette.
C4_MissingValuesGetNoData ==
    /\ Built => \A c \in Counties : cbp[c].k # "num" => fills[c] = NoDataColor
    /\ \A name \in RegisteredNames :
          \A h \in Range(NoDataColor.pal) : h \notin Range(indicator_settings(name).palette)

\* C5: on the linear scale, when every cleaned value is the same number c
\* the range is widened to [c - 0.5, c + 0.5].
C5_EqualValuesWidened ==
    (Built /\ colormap.branch = "linear" /\ distinct_count = 1) =>
        /\ colormap.vmin = vals_clean[1] - Unit \div 2
        /\ colormap.vmax = vals_clean[1] + Unit \div 2
        /\ colormap.vmin < colormap.vmax

\* C6: the breaks of every colour scale have a first break strictly below
\* the last break.
C6_TwoDistinctBoundaries ==
    Built => colormap.index[1] < colormap.index[Len(colormap.index)]

C8_RespacedWhenUniqueCountDiffers ==
    (Built /\ colormap.branch = "quantile") =>
        IF Cardinality(Range(colormap.raw)) = settings.classes + 1
        THEN colormap.index = colormap.raw
        ELSE /\ Len(colormap.index) = settings.classes + 1
             /\ EvenlySpaced(colormap.index, SetMin(Range(vals_clean)),
                             SetMax(Range(vals_clean)))

\* C8 (amended): on the quantile scale the classifier's breaks are the
\* minimum followed by the distinct k-quantile boundaries in ascending
\* order; they are kept when that list has exactly len(palette)+1 = k+1
\* entries, the minimum counted even when it equals the first boundary,
\* and are otherwise replaced by k+1 evenly spaced breaks from the minimum
\* to the maximum ([1,1,1,1,2] with k=5 gives 1, 1.2, ..., 2).
C8_RespacedWhenLengthDiffers ==
    /\ (Selected /\ settings.method = "quantile" /\ distinct_count > 0) =>
        colormap.branch \in {"quantile", "except"}
    /\ (Built /\ colormap.branch = "quantile") =>
        /\ Len(settings.palette) = settings.classes
        /\ colormap.raw[1] = SetMin(Range(vals_clean))
        /\ Range(Tail(colormap.raw)) =
              {percentile(vals_clean, j, settings.classes) : j \in 1..settings.classes}
        /\ StrictlyIncreasing(Tail(colormap.raw))
        /\ IF Len(colormap.raw) = settings.classes + 1
           THEN colormap.index = colormap.raw
           ELSE /\ Len(colormap.index) = settings.classes + 1
                /\ EvenlySpaced(colormap.index, SetMin(Range(vals_clean)),
                                SetMax(Range(vals_clean)))
        /\ cbp = <<Num(1), Num(1), Num(1), Num(1), Num(2)>>
              => colormap.index = <<5 * (Unit \div 5), 6 * (Unit \div 5), 7 * (Unit \div 5),
                                    8 * (Unit \div 5), 9 * (Unit \div 5), 10 * (Unit \div 5)>>

\* the minimum is tied with the first boundary: six breaks, five distinct
C8_Witness ==
    /\ indicator_label = "Median Home Value"
    /\ colormap.branch = "quantile"
    /\ ~colormap.respaced
    /\ Len(colormap.index) = 6
    /\ colormap.index[1] = colormap.index[2]

\* C9: for a natural-breaks indicator with k classes and d >= 2 distinct
\* cleaned values the scale is built by natural breaks with min(k, d-1)
\* classes, and is respaced evenly only when the classifier did not give
\* as many breaks as the classes asked of it.
C9_NaturalBreaksAlwaysUsed ==
    (Selected /\ settings.method = "jenks" /\ distinct_count >= 2) =>
        /\ colormap.branch = "jenks"
        /\ colormap.k = Min2(settings.classes, distinct_count - 1)
        /\ colormap.respaced => Len(colormap.raw) # colormap.k + 1

\* C10: a finite value below the first break is coloured palette[0], one
\* at or above the last break palette[-1]; the Recruitment Radius Count
\* scale keeps its range (0, 8) and breaks when a value exceeds 8.
C10_Clamping ==
    Built =>
        /\ \A c \in Counties :
              (cbp[c].k = "num" /\ Float(cbp[c].v) < colormap.index[1])
              => fills[c] = PaletteColor(settings.palette, 0)
        /\ \A c \in Counties :
              (cbp[c].k = "num" /\ Float(cbp[c].v) >= colormap.index[Len(colormap.index)])
              => fills[c] = PaletteColor(settings.palette, Len(settings.palette) - 1)
        /\ (settings.method = "manual" /\ HasValue(9))
              => /\ colormap.vmin = 0
                 /\ colormap.vmax = 8 * Unit
                 /\ colormap.index[Len(colormap.index)] = 8 * Unit

\* C10 holds on every scale whose first break is below its last
C10_ClampingNonDegenerate ==
    (Built /\ colormap.index[1] < colormap.index[Len(colormap.index)]) => C10_Clamping


\* C11: for every column and every indicator, rendering ends with a usable
\* colour mapping; when the classifier raised, a warning was emitted and the
\* scale is the linear scale between the 2nd and 98th percentile stepped
\* into k classes.
C11_AlwaysUsableColormap ==
    (page = "Home" /\ Selected) =>
        /\ Built
        /\ "colormap" \in layers
        /\ Len(colormap.colors) >= 1
        /\ Len(colormap.index) = Len(colormap.colors) + 1
        /\ colormap.branch = "except" =>
              /\ warnings = {"Color scale fallback"}
              /\ colormap.vmin = percentile(vals_clean, 2, 100)
              /\ colormap.vmax = percentile(vals_clean, 98, 100)
              /\ Len(colormap.colors) = settings.classes

\* the part of C11 that holds: once the column has a finite value, every
\* outcome of the try block, a raising classifier included, ends with a
\* scale of at least one interval, and the except arm warns
C11_ErrorsCaught ==
    (page = "Home" /\ Selected /\ distinct_count > 0) =>
        /\ Built
        /\ "colormap" \in layers
        /\ Len(colormap.colors) >= 1
        /\ Len(colormap.index) = Len(colormap.colors) + 1
        /\ colormap.branch = "except" =>
              /\ warnings = {"Color scale fallback"}
              /\ colormap.vmin = percentile(vals_clean, 2, 100)
              /\ colormap.vmax = percentile(vals_clean, 98, 100)
              /\ Len(colormap.colors) = settings.classes


\* the Home label of a column
column_label(column) ==
    IF column = "Unemployement Rate" THEN "Unemployment Rate" ELSE column

\* C12: after any sequence of indicator selections, page runs and dataset
\* changes, the breaks and the classified table of the last run are those
\* computed from the table that run works on and the selected column, and
\* every stored result was computed from the table load_data now returns.
C12_ResultsFromCurrentData ==
    /\ run # NoRun =>
          \A j \in DOMAIN run.calls :
              LET result == run.calls[j].result
                  column == run.columns[j]
              IN CASE run.page = "Home" ->
                        /\ result.data = run.loaded
                        /\ result.bins \in
                              {r.colormap.index :
                                 r \in build_map(run.loaded[column], column_label(column))}
                   [] run.page = "Interactive Map" ->
                        result \in prepare_classified_data(
                                      fill_selected(run.loaded, column), column)
                   [] run.page = "Split Map" ->
                        result \in classify_table(run.loaded, column)
    /\ \A p \in CachedPages : \A e \in result_cache[p] :
          /\ data_cache[p] # {}
          /\ \A d \in data_cache[p] :
                IF p = "Interactive Map"
                THEN e \in prepare_classified_data(fill_selected(d, e.column), e.column)
                ELSE e \in classify_table(d, e.column)

\* the data source has changed between the loads of the two pages, both
\* columns have been selected, and the Interactive Map serves a stored
\* result
C12_Witness ==
    /\ run # NoRun
    /\ run.page = "Interactive Map"
    /\ run.calls[1].hit
    /\ Cardinality(result_cache["Interactive Map"]) = 2
    /\ data_cache["Split Map"] # {}
    /\ data_cache["Split Map"] # data_cache["Interactive Map"]


\* C13: selecting and classifying an indicator never changes the caller's
\* county table: after a run of any page every county's stored value of a
\* selected column equals the loaded one, and a missing or infinite entry
\* is not replaced by a number in the classified values.
C13_CallerTableUnchanged ==
    run # NoRun =>
        \A j \in DOMAIN run.calls :
            LET column == run.columns[j]
            IN \A i \in DOMAIN run.loaded[column] :
                  /\ run.view[column][i] = run.loaded[column][i]
                  /\ ~IsFinite(run.loaded[column][i])
                        => run.calls[j].result.data[column][i] = run.loaded[column][i]

\* the part of C13 that holds: the Home page and the Split Map page leave
\* their own table as loaded
C13_HomeAndSplitMapTableUnchanged ==
    (run # NoRun /\ run.page # "Interactive Map") => run.view = run.loaded


\* C14: when the palette length differs from the number of intervals of the
\* classifier's breaks, the palette is resampled to that number and the
\* classifier's breaks are kept.
C14_PaletteResampledBreaksKept ==
    (Built /\ colormap.branch \in {"quantile", "jenks"}
           /\ Len(settings.palette) # Len(colormap.raw) - 1) =>
        /\ colormap.index = colormap.raw
        /\ Len(colormap.colors) = Len(colormap.raw) - 1

\* C15: for every column with a finite value and every method, the first
\* break is at most the minimum of the cleaned values and the last break at
\* least their maximum; so are the breaks of the Split Map.
C15_BreaksCoverValues ==
    /\ Built =>
          /\ colormap.index[1] <= SetMin(Range(vals_clean))
          /\ Last(colormap.index) >= SetMax(Range(vals_clean))
    /\ split_bins.bins # <<>> =>
          /\ split_bins.bins[1] <= SetMin(Range(vals_clean))
          /\ Last(split_bins.bins) >= SetMax(Range(vals_clean))

\* C15 (amended): on the quantile and natural-breaks scales, respaced or
\* not, the first break is the minimum and the last the maximum of the
\* cleaned values; on the linear scale (also after a caught error) they are
\* the 2nd and the 98th percentile, inside [min, max]; the manual scale
\* keeps its bins 0..8 whatever the values; the Split Map's breaks start
\* below the minimum and end above the maximum.
C15_BreaksCoverValuesByMethod ==
    /\ (Built /\ colormap.branch \in {"quantile", "jenks"}) =>
          /\ colormap.index[1] = SetMin(Range(vals_clean))
          /\ Last(colormap.index) = SetMax(Range(vals_clean))
    /\ (Built /\ colormap.branch \in {"linear", "except"}) =>
          /\ colormap.index[1] = percentile(vals_clean, 2, 100)
          /\ Last(colormap.index) = percentile(vals_clean, 98, 100)
          /\ SetMin(Range(vals_clean)) <= colormap.index[1]
          /\ Last(colormap.index) <= SetMax(Range(vals_clean))
    /\ (Built /\ colormap.branch = "manual") =>
          /\ colormap.index[1] = Float(0)
          /\ Last(colormap.index) = Float(8)
    /\ split_bins.bins # <<>> =>
          LET filled == {Float(fillna_zero(cbp)[i].v) : i \in DOMAIN cbp}
          IN /\ split_bins.bins[1] = SetMin(filled) - Eps
             /\ Last(split_bins.bins) = SetMax(filled) + Eps
             /\ split_bins.bins[1] < SetMin(Range(vals_clean))
             /\ Last(split_bins.bins) > SetMax(Range(vals_clean))

\* a linear scale whose breaks leave out the minimum and the maximum
C15_Witness ==
    /\ Built
    /\ colormap.branch = "linear"
    /\ colormap.index[1] > SetMin(Range(vals_clean))
    /\ Last(colormap.index) < SetMax(Range(vals_clean))


\* C16: the "Shipyards in Radius" normaliser gives the set of yard names the
\* field lists: the elements of a list, tuple or set, the trimmed non-empty
\* parts of a string separated by commas or by semicolons, and the empty
\* set for None and NaN.
C16_NormaliserGivesListedYards ==
    (input.fn = "parse_shipyards_in_radius" /\ output # {}) =>
        \A yards \in output :
            yards = IF input.x.k \in {"none", "nan"} THEN {}
                    ELSE IF input.x.k = "list" THEN Range(input.x.items)
                    ELSE {strip(s) : s \in Range(split(input.x.chars, {",", ";"}))}
                            \ {<<>>}

\* the part of C16 that holds: the comma is the only separator
C16_CommaIsTheOnlySeparator ==
    (input.fn = "parse_shipyards_in_radius" /\ output # {}) =>
        \A yards \in output :
            /\ input.x.k \in {"none", "nan"} => yards = {}
            /\ input.x.k = "list" => yards = Range(input.x.items)
            /\ input.x.k = "str" =>
                  /\ \A name \in yards :
                        /\ name # <<>>
                        /\ Head(name) # " " /\ Last(name) # " "
                        /\ \A n \in DOMAIN name : name[n] # ","
                  /\ \A n \in DOMAIN input.x.chars :
                        input.x.chars[n] \in {"A", "B", ";"}
                           => \E name \in yards : input.x.chars[n] \in Range(name)

\* C17: the yard at position i in order of first appearance gets
\* palette[i mod len(palette)], the yard at position len(palette) gets
\* palette[0] again, and the Home page and the Interactive Map page give
\* the same yard the same colour.
C17_ColorByFirstAppearance ==
    input.fn = "color_map" =>
        /\ \A colors \in output \cup page_output :
              /\ DOMAIN colors = Range(input.column)
              /\ \A yard_id \in Range(input.column) :
                    LET first == SetMin({n \in DOMAIN input.column :
                                            input.column[n] = yard_id})
                        i == Cardinality({input.column[n] : n \in 1..(first - 1)})
                    IN /\ colors[yard_id] = palette[(i % Len(palette)) + 1]
                       /\ i = Len(palette) => colors[yard_id] = palette[1]
        /\ \A home \in output : \A interactive \in page_output : home = interactive

\* thirteen yards in descending order, coloured on both pages
C17_Witness ==
    /\ input.fn = "color_map"
    /\ output # {}
    /\ page_output # {}
    /\ Cardinality(Range(input.column)) > Len(palette)
    /\ input.column[1] > input.column[2]

\* C18: a name without an entry in the registry gets the default setting
\* (linear, 7 classes, the 3-colour palette), and a registered name gets
\* its own entry.
C18_LookupNeverFails ==
    (input.fn = "get_settings" /\ output # {}) =>
        \A found \in output :
            IF input.name \in {"Unemployment Rate", "Median Rent Paid",
                               "Shipbuilders Employed", "Recruitment Radius Count",
                               "Median Worker Earnings", "Median Home Value"}
            THEN found = indicator_settings(input.name)
            ELSE found = [palette |-> <<"#f7fbff", "#6baed6", "#08519c">>,
                          classes |-> 7, method |-> "linear"]

\* a name that is not in the registry has been looked up
C18_Witness ==
    /\ input.fn = "get_settings"
    /\ input.name = "Population"
    /\ output # {}

\* C19: every entry of the registry has a palette of k or k+1 colours for
\* its k classes, and a manual entry has non-decreasing bins and one colour
\* per interval of its bins.
C19_RegistryPalettes ==
    (input.fn = "get_settings" /\ input.name \in RegisteredNames /\ output # {}) =>
        \A entry \in output :
            /\ Len(entry.palette) \in {entry.classes, entry.classes + 1}
            /\ entry.method = "manual" =>
                  /\ NonDecreasing(entry.bins)
                  /\ Len(entry.palette) = Len(entry.bins) - 1


\* C20: whenever the scale comes from a fallback instead of the configured
\* method's own breaks (the linear scale for a natural-breaks indicator, or
\* evenly spaced breaks in place of the classifier's), a warning is emitted
\* for that render.
C20_FallbackWarns ==
    (Built /\ \/ settings.method = "jenks" /\ colormap.branch \in {"linear", "except"}
              \/ settings.method = "quantile" /\ colormap.branch = "except"
              \/ colormap.respaced) =>
        warnings # {}


\* C21: building the colour mapping is deterministic and stateless: the
\* colour of a county is fixed by its value, the breaks and the colours of
\* the scale alone, and the scale belongs to the indicator selected now,
\* whatever was mapped before.
C21_ColourDependsOnBreaksAndPalette ==
    (page = "Home" /\ Built) =>
        /\ \A i \in DOMAIN cbp :
              fills[i] = style_fn(geo_interface(cbp[i]),
                                  [NoColormap EXCEPT !.index = colormap.index,
                                                     !.colors = colormap.colors])
        /\ \A i, j \in DOMAIN cbp : cbp[i] = cbp[j] => fills[i] = fills[j]
        /\ \A j \in DOMAIN colormap.colors :
              colormap.colors[j].pal = settings.palette
        /\ Len(colormap.index) = Len(colormap.colors) + 1

\* two counties with the same value and a third with another colour
C21_Witness ==
    /\ page = "Home"
    /\ Built
    /\ Len(cbp) >= 3
    /\ cbp[1] = cbp[2]
    /\ IsFinite(cbp[1])
    /\ fills[1] = fills[2]
    /\ fills[3] # fills[1]
    /\ fills[3] # NoDataColor

\* C23: every map build, whatever the indicator and the data, returns a map
\* with the recruitment-radius layer and the shipyard layer; the shipyard
\* legend is added exactly when the indicator is "None" and the layer
\* control exactly when it is not.
C23_LayersAlwaysPresent ==
    page = "Home" =>
        /\ {"buffers", "shipyards"} \subseteq layers
        /\ "legend" \in layers <=> indicator_label = "None"
        /\ "layer_control" \in layers <=> indicator_label # "None"

\* the part of C23 that holds: when the column has a finite value, or no
\* indicator is selected
C23_LayersPresentWithValidData ==
    (page = "Home" /\ (indicator_label = "None" \/ distinct_count > 0)) =>
        /\ {"buffers", "shipyards"} \subseteq layers
        /\ "legend" \in layers <=> indicator_label = "None"
        /\ "layer_control" \in layers <=> indicator_label # "None"


\* the county filter has run
Filtered == input.fn = "cbp_view" /\ output # {}

\* C22: with at least one yard selected the view holds exactly the counties
\* whose normalised yard set contains a selected yard, in the table's order;
\* with none selected it holds every county; the county table is as it was
C22_ViewIsTheMatchingCounties ==
    Filtered =>
        \A o \in output :
            LET chosen == {n \in DOMAIN input.table :
                              \/ input.selected_yards = <<>>
                              \/ parse_shipyards_in_radius(input.table[n])
                                    \cap Range(input.selected_yards) # {}}
            IN /\ {o.cbp_view[n].county : n \in DOMAIN o.cbp_view} = chosen
               /\ Len(o.cbp_view) = Cardinality(chosen)
               /\ \A n \in DOMAIN o.cbp_view :
                     /\ o.cbp_view[n].field = input.table[o.cbp_view[n].county]
                     /\ n > 1 => o.cbp_view[n - 1].county < o.cbp_view[n].county
               /\ o.cbp = input.table

C22_Witness ==
    /\ Filtered
    /\ Len(input.selected_yards) = 2
    /\ \E o \in output :
          /\ Len(o.cbp_view) = 2
          /\ Len(o.cbp) = 3
          /\ \E n \in DOMAIN o.cbp_view :
                Cardinality(o.cbp_view[n].yards_set
                                \cap Range(input.selected_yards)) = 1

C22_WitnessNoneSelected ==
    /\ Filtered
    /\ input.selected_yards = <<>>
    /\ \E o \in output : Len(o.cbp_view) = 3 /\ Len(o.cbp) = 3

\* C24: for every "Shipyards in Radius" string the yard names of
\* parse_shipyards_in_radius are the list items of format_shipyards_list
C24_SameYardNames ==
    (/\ input.fn = "parse_shipyards_in_radius"
     /\ input.x.k = "str"
     /\ output # {}
     /\ page_output # {}) =>
        output = page_output

\* C24, what holds: the two pages agree on the strings in which every comma
\* is followed by a space and by something other than LLC
C24_SameYardNamesOnPlainLists ==
    (/\ input.fn = "parse_shipyards_in_radius"
     /\ input.x.k = "str"
     /\ output # {}
     /\ page_output # {}
     /\ \A n \in DOMAIN strip(input.x.chars) :
           strip(input.x.chars)[n] = "," =>
              /\ n < Len(strip(input.x.chars))
              /\ strip(input.x.chars)[n + 1] = " "
              /\ ~(n + 2 <= Len(strip(input.x.chars))
                    /\ strip(input.x.chars)[n + 2] = "LLC")) =>
        output = page_output

\* C25: with yards selected the competitors are exactly the yard names of
\* the view's yard sets that are not selected: none of them is selected,
\* each shares a county with a selected yard, and the list is sorted
\* without duplicates
C25_CompetitorsAreTheOtherYards ==
    (Filtered /\ input.selected_yards # <<>>) =>
        \A o \in output :
            /\ Range(o.competitors)
                  = {y \in UNION {o.cbp_view[n].yards_set : n \in DOMAIN o.cbp_view} :
                        y \notin Range(input.selected_yards)}
            /\ Range(o.competitors) \cap Range(input.selected_yards) = {}
            /\ \A m \in DOMAIN o.competitors :
                  \E n \in DOMAIN input.table :
                      /\ o.competitors[m] \in parse_shipyards_in_radius(input.table[n])
                      /\ parse_shipyards_in_radius(input.table[n])
                            \cap Range(input.selected_yards) # {}
            /\ \A m \in DOMAIN o.competitors :
                  m > 1 => string_less(o.competitors[m - 1], o.competitors[m])

C25_Witness ==
    /\ Filtered
    /\ input.selected_yards = << <<"A">> >>
    /\ \E o \in output :
          /\ o.competitors = << <<"B">>, <<"LLC">> >>
          /\ Len(o.cbp_view) < Len(o.cbp)

====
